---- MODULE Spec2Model ----
(***************************************************************************)
(* Record reconciliation and merge engine of marketing-script.             *)
(*                                                                         *)
(*   src/src/output_writer.py  OutputWriter.merge_into_existing_excel      *)
(*   src/pre_merge.py          normalize_key, compare_with_existing        *)
(*   src/merge_final.py        main (the caller of the merge)              *)
(*                                                                         *)
(* A Python string is a sequence of one-character strings.  The float NaN  *)
(* pandas yields for an empty cell and Python's None are the one-element   *)
(* sequences NaN and NoneV, whose element is no character.  A dict is a    *)
(* function whose DOMAIN is its key set.  A workbook file is a header row  *)
(* and rows of text cells; every file has the extension ".xlsx".           *)
(***************************************************************************)
EXTENDS Integers, Sequences, FiniteSets, TLC

VARIABLES
    fs,          \* the files: path -> workbook content
    dirs,        \* the directories that exist
    now,         \* datetime.now(), in seconds
    data,        \* the new-record batch handed to the merge
    pc,          \* position of merge_into_existing_excel
    call,        \* arguments and locals of the running merge
    df_exist,    \* the DataFrame the merge works on
    ret,         \* what the last call returned or raised
    oplog,       \* filesystem operations the running call has performed
    before,      \* filesystem and master content when the call began
    artifacts,   \* merged artifacts written by earlier calls of this behaviour
    merges,      \* number of merge calls begun
    faults,      \* I/O failures the environment may still inject
    cmp,         \* result of the last compare_with_existing
    preserved,   \* the paths earlier merges returned as the preserved original
    bk,          \* create_backup: its last result and the snapshots it took
    collect,     \* load_businesses_with_contact_info: its locals
    norm,        \* a value and what normalize_key made of it, once and twice
    pb           \* process_batch: its items, the records done and its results

vars == <<fs, dirs, now, data, pc, call, df_exist, ret, oplog, before,
          artifacts, merges, faults, cmp,
                   preserved, bk, collect, norm, pb>>

-----------------------------------------------------------------------------
(* Bounds *)

MaxBatch == 2
MaxMerges == 2
MaxFaults == 1
MaxClock == 2
MaxTokens == 3
MaxBackups == 2
MaxTarget == 2
MaxResults == 2

-----------------------------------------------------------------------------
(* Characters and strings *)

LowerLetters == <<"a","b","c","d","e","f","g","h","i","j","k","l","m",
                  "n","o","p","q","r","s","t","u","v","w","x","y","z">>
UpperLetters == <<"A","B","C","D","E","F","G","H","I","J","K","L","M",
                  "N","O","P","Q","R","S","T","U","V","W","X","Y","Z">>
Digits == {"0","1","2","3","4","5","6","7","8","9"}
Whitespace == {" "}

Range(s) == {s[i] : i \in DOMAIN s}

NaN == <<"NaN">>
NoneV == <<"None">>
EmptyStr == <<>>

\* str.lower() on one character
LowerChar(c) ==
    IF \E i \in DOMAIN UpperLetters : UpperLetters[i] = c
    THEN LowerLetters[CHOOSE i \in DOMAIN UpperLetters : UpperLetters[i] = c]
    ELSE c

Lower(s) == [i \in DOMAIN s |-> LowerChar(s[i])]

\* str.strip()
Strip(s) ==
    LET keep == {i \in DOMAIN s : s[i] \notin Whitespace}
    IN  IF keep = {} THEN EmptyStr
        ELSE LET lo == CHOOSE i \in keep : \A j \in keep : i <= j
                 hi == CHOOSE i \in keep : \A j \in keep : i >= j
             IN  SubSeq(s, lo, hi)

\* str(val)
Str(val) == IF val = NaN THEN <<"n","a","n">>
            ELSE IF val = NoneV THEN <<"N","o","n","e">>
            ELSE val

\* Python truthiness of a value: the empty string and None are falsy, NaN is not
Truthy(val) == val # EmptyStr /\ val # NoneV

StartsWith(s, p) == Len(s) >= Len(p) /\ SubSeq(s, 1, Len(p)) = p
DropPrefix(s, n) == SubSeq(s, n + 1, Len(s))

\* re.sub(r'[^...]', '', s) for a character class
KeepChars(s, class) == SelectSeq(s, LAMBDA c : c \in class)

\* dict.get(key, default)
Get(item, key, default) == IF key \in DOMAIN item THEN item[key] ELSE default

-----------------------------------------------------------------------------
(* Pure helpers of merge_into_existing_excel *)

\* a or b
PyOr(a, b) == IF Truthy(a) THEN a ELSE b

clean_value(val) ==
    IF val = NoneV \/ val = NaN THEN EmptyStr ELSE Strip(Str(val))

HttpPrefix == <<"h","t","t","p",":","/","/">>
HttpsPrefix == <<"h","t","t","p","s",":","/","/">>
WwwPrefix == <<"w","w","w",".">>
AlnumLower == Range(LowerLetters) \cup Digits

\* re.sub(r'^https?://', '', s)
StripScheme(s) ==
    IF StartsWith(s, HttpsPrefix) THEN DropPrefix(s, Len(HttpsPrefix))
    ELSE IF StartsWith(s, HttpPrefix) THEN DropPrefix(s, Len(HttpPrefix))
    ELSE s

\* re.sub(r'^www\.', '', s)
StripWww(s) == IF StartsWith(s, WwwPrefix) THEN DropPrefix(s, Len(WwwPrefix)) ELSE s

normalize_keyPrefixesOnly(val) ==
    IF val = NoneV THEN EmptyStr
    ELSE StripWww(StripScheme(Strip(Lower(Str(val)))))

normalize_key(val) ==
    IF val = NoneV THEN EmptyStr
    ELSE KeepChars(StripWww(StripScheme(Strip(Lower(Str(val))))), AlnumLower)

CountryCode == <<"5","7">>
MobilePrefix == <<"3">>

looks_like_mobile(phone) ==
    IF ~Truthy(phone) THEN FALSE
    ELSE LET digits == KeepChars(Str(phone), Digits)
             national == IF StartsWith(digits, CountryCode)
                         THEN DropPrefix(digits, Len(CountryCode)) ELSE digits
         IN  StartsWith(national, MobilePrefix)

NA == <<"N","/","A">>

DefaultKeyPriority == <<"Pagina Web", "Nombre">>

\* lines 312-329: a record with no phone at all is kept, with 'N/A' channels
FilterItem(item) ==
    LET whatsapp == clean_value(Get(item, "WhatsApp", EmptyStr))
        telefono == clean_value(Get(item, "Telefono", EmptyStr))
        telefono_alt == clean_value(Get(item, "Teléfono", EmptyStr))
    IN  IF ~Truthy(whatsapp) /\ ~Truthy(telefono) /\ ~Truthy(telefono_alt)
        THEN [k \in DOMAIN item \cup {"WhatsApp", "Telefono"} |->
                 IF k \in {"WhatsApp", "Telefono", "Teléfono"} THEN NA ELSE item[k]]
        ELSE item

filtered_dataContactOnly(batch) ==
    SelectSeq(batch, LAMBDA item :
        \/ Truthy(clean_value(Get(item, "WhatsApp", EmptyStr)))
        \/ Truthy(clean_value(Get(item, "Telefono", EmptyStr)))
        \/ Truthy(clean_value(Get(item, "Teléfono", EmptyStr))))

filtered_data(batch) == [i \in DOMAIN batch |-> FilterItem(batch[i])]

-----------------------------------------------------------------------------
(* Workbook files and DataFrames *)

\* cell texts pandas reads as missing (a subset of its default NA strings)
NAStrings == {EmptyStr, NA, <<"n","a","n">>, <<"N","a","N">>, <<"N","A">>}

\* the header cell of a column named name, with lpad/rpad blanks around it
HeaderCell(name, lpad, rpad) == [name |-> name, lpad |-> lpad, rpad |-> rpad]

\* str(c).strip() of a header cell
StripHeader(h) == h.name

\* pd.read_excel followed by the strip of the column names (lines 345-350)
ReadExcel(content) ==
    LET cols == [j \in DOMAIN content.header |-> StripHeader(content.header[j])]
    IN  [columns |-> cols,
         rows |-> [i \in DOMAIN content.rows |->
                     [c \in Range(cols) |->
                        LET j == CHOOSE k \in DOMAIN cols : cols[k] = c
                            cell == content.rows[i][j]
                        IN  IF cell \in NAStrings THEN NaN ELSE cell]]]

\* DataFrame.to_excel(index=False): a workbook without styles
ToExcel(df) ==
    [header |-> [j \in DOMAIN df.columns |-> HeaderCell(df.columns[j], 0, 0)],
     rows |-> [i \in DOMAIN df.rows |->
                 [j \in DOMAIN df.columns |->
                    LET v == df.rows[i][df.columns[j]]
                    IN  IF v = NaN \/ v = NoneV THEN EmptyStr ELSE v]],
     style |-> "plain"]

\* df.at[idx, col] = val; a column the frame lacks is added (NaN elsewhere)
DfAtSet(df, idx, col, val) ==
    IF col \in Range(df.columns)
    THEN [df EXCEPT !.rows[idx][col] = val]
    ELSE [columns |-> Append(df.columns, col),
          rows |-> [i \in DOMAIN df.rows |->
                      df.rows[i] @@ (col :> IF i = idx THEN val ELSE NaN)]]

\* df.loc[len(df)] = new_row: the dict is aligned to the frame's columns
DfLocAppend(df, new_row) ==
    [df EXCEPT !.rows = Append(@, [c \in Range(df.columns) |->
                                     Get(new_row, c, NaN)])]

-----------------------------------------------------------------------------
(* The merge loop of merge_into_existing_excel, lines 352-461 *)

DigitSeq == <<"0","1","2","3","4","5","6","7","8","9">>

\* the text of a small non-negative integer (the 'Unnamed: 0' index cell)
IntStr(n) == IF n < 10 THEN <<DigitSeq[n + 1]>>
             ELSE <<DigitSeq[(n \div 10) + 1], DigitSeq[(n % 10) + 1]>>

\* lines 352-363: the key column of the master
key_col(df, key_priority) ==
    LET present == {i \in DOMAIN key_priority : key_priority[i] \in Range(df.columns)}
    IN  IF present # {}
        THEN key_priority[CHOOSE i \in present : \A j \in present : i <= j]
        ELSE IF "Nombre" \in Range(df.columns) THEN "Nombre"
        ELSE df.columns[1]

\* df_exist.get(key_col, ...).fillna("")
existing_keys(df, kc) ==
    [i \in DOMAIN df.rows |-> IF df.rows[i][kc] = NaN THEN EmptyStr ELSE df.rows[i][kc]]

\* line 378: {normalize_key(v): i}; a later row replaces an earlier one
existing_map(df, kc) ==
    LET keys == existing_keys(df, kc)
        nk == [i \in DOMAIN keys |-> normalize_key(keys[i])]
    IN  [k \in Range(nk) |->
           CHOOSE i \in DOMAIN nk : nk[i] = k /\ \A j \in DOMAIN nk : nk[j] = k => j <= i]

\* lines 393-400: the key value of a record
item_key_val(item, key_priority) ==
    LET usable == {i \in DOMAIN key_priority :
                      key_priority[i] \in DOMAIN item /\ Truthy(item[key_priority[i]])}
    IN  IF usable # {}
        THEN item[key_priority[CHOOSE i \in usable : \A j \in usable : i <= j]]
        ELSE Get(item, "Nombre", EmptyStr)

\* lines 412 and 439: the number offered to the WhatsApp column
whatsapp_val(item) ==
    PyOr(PyOr(clean_value(Get(item, "WhatsApp", NoneV)),
              clean_value(Get(item, "Telefono", NoneV))),
         clean_value(Get(item, "Teléfono", NoneV)))

\* lines 418 and 445: the number offered to the Telefono column
telefono_val(item) ==
    PyOr(PyOr(clean_value(Get(item, "Telefono", NoneV)),
              clean_value(Get(item, "Teléfono", NoneV))),
         clean_value(Get(item, "phone", NoneV)))

\* lines 413-415 and 440-442: is val written to the WhatsApp column?
WritesWhatsApp(val) == ~(Truthy(val) /\ ~looks_like_mobile(val))

WritesTelefonoAlways(val, columns) == TRUE

\* lines 420-429 and 446-453: is val written to the Telefono column?
WritesTelefono(val, columns) ==
    IF Truthy(val) /\ looks_like_mobile(val)
    THEN "WhatsApp" \notin Range(columns)
    ELSE TRUE

\* a sequence of the elements of a finite set
RECURSIVE SetToSeq(_)
SetToSeq(S) == IF S = {} THEN <<>>
               ELSE LET x == CHOOSE y \in S : TRUE
                    IN  <<x>> \o SetToSeq(S \ {x})

UpdateColumnsOfItem(existing_cols, item) == SetToSeq(DOMAIN item \ {"Unnamed: 0"})

\* lines 407-408: the columns an in-place update visits
UpdateColumns(existing_cols, item) ==
    SelectSeq(existing_cols, LAMBDA col : col \in DOMAIN item /\ col # "Unnamed: 0")

\* lines 409-431: the update of one column of the matched row
UpdateCell(df, idx, col, item) ==
    IF col = "WhatsApp"
    THEN LET val == whatsapp_val(item)
         IN  IF WritesWhatsApp(val) THEN DfAtSet(df, idx, col, val) ELSE df
    ELSE IF col = "Telefono"
    THEN LET val == telefono_val(item)
         IN  IF WritesTelefono(val, df.columns) THEN DfAtSet(df, idx, col, val) ELSE df
    ELSE DfAtSet(df, idx, col, item[col])

RECURSIVE UpdateRow(_, _, _, _)
UpdateRow(df, idx, cols, item) ==
    IF cols = <<>> THEN df
    ELSE UpdateRow(UpdateCell(df, idx, Head(cols), item), idx, Tail(cols), item)

\* lines 434-458: the row appended for an unmatched record
new_row(df, existing_cols, item) ==
    [c \in Range(existing_cols) |->
        IF c \in DOMAIN item
        THEN IF c = "WhatsApp"
             THEN LET val == whatsapp_val(item)
                  IN  IF WritesWhatsApp(val) THEN val ELSE EmptyStr
             ELSE IF c = "Telefono"
             THEN LET val == telefono_val(item)
                  IN  IF WritesTelefono(val, existing_cols) THEN val ELSE EmptyStr
             ELSE clean_value(item[c])
        ELSE IF c = "Unnamed: 0" THEN IntStr(Len(df.rows))
        ELSE EmptyStr]

\* does the record match a row of the master? (line 404)
KeyMatches(emap, nkey) == nkey \in DOMAIN emap

MergeItemLiveMap(df, existing_cols, emap, item, key_priority) ==
    LET nkey == normalize_key(item_key_val(item, key_priority))
        live == existing_map(df, key_col(df, key_priority))
    IN  IF KeyMatches(live, nkey)
        THEN UpdateRow(df, live[nkey], UpdateColumns(existing_cols, item), item)
        ELSE DfLocAppend(df, new_row(df, existing_cols, item))

\* lines 391-461 for one record
MergeItem(df, existing_cols, emap, item, key_priority) ==
    LET nkey == normalize_key(item_key_val(item, key_priority))
    IN  IF KeyMatches(emap, nkey)
        THEN UpdateRow(df, emap[nkey], UpdateColumns(existing_cols, item), item)
        ELSE DfLocAppend(df, new_row(df, existing_cols, item))

RECURSIVE MergeLoop(_, _, _, _, _)
MergeLoop(df, existing_cols, emap, items, key_priority) ==
    IF items = <<>> THEN df
    ELSE MergeLoop(MergeItem(df, existing_cols, emap, Head(items), key_priority),
                   existing_cols, emap, Tail(items), key_priority)

\* lines 345-461: the merged DataFrame for a master file and a batch
MergedFrame(content, batch, key_priority) ==
    LET df == ReadExcel(content)
        kc == key_col(df, key_priority)
    IN  MergeLoop(df, df.columns, existing_map(df, kc), filtered_data(batch), key_priority)

-----------------------------------------------------------------------------
(* Paths.  A path is a directory under data/ and the file name without its *)
(* extension, as the sequence of the pieces it was built from.             *)

Path(dir, stem) == [dir |-> dir, stem |-> stem]

OriginalTag == " - original"
TmpTag == ".xlsx.tmp"
TimestampTokens == <<" 20260101_000000", " 20260101_000001", " 20260101_000002",
                     " 20260101_000003", " 20260101_000004", " 20260101_000005">>

\* datetime.now().strftime("%Y%m%d_%H%M%S"), preceded by the blank of line 525
Timestamp(t) == TimestampTokens[t + 1]

\* line 465: os.path.join(os.path.dirname(existing_filepath), '..', 'merged')
DefaultOutputDir(existing_filepath) == "merged"

\* lines 464-465
ResolveOutputDir(existing_filepath, output_dir) ==
    IF output_dir = "None" THEN DefaultOutputDir(existing_filepath) ELSE output_dir

\* line 474
merged_filepath(existing_filepath, output_dir) ==
    Path(output_dir, existing_filepath.stem)

\* lines 477-480
renamed_original(existing_filepath) ==
    Path(existing_filepath.dir, Append(existing_filepath.stem, OriginalTag))

\* lines 521-526
renamed_original_ts(existing_filepath, t) ==
    Path(existing_filepath.dir,
         existing_filepath.stem \o <<OriginalTag, Timestamp(t)>>)

\* line 483
temp_file(merged) == Path(merged.dir, Append(merged.stem, TmpTag))

\* what a write that failed half-way leaves behind
PartialFile == [header |-> <<>>, rows |-> <<>>, style |-> "partial"]

\* lines 486-515: the temporary workbook with the header and data styles applied
Styled(content) == [content EXCEPT !.style = "styled"]

WriteFile(files, path, content) ==
    [q \in DOMAIN files \cup {path} |-> IF q = path THEN content ELSE files[q]]

RemoveFile(files, path) == [q \in DOMAIN files \ {path} |-> files[q]]

\* shutil.move(src, dst) of a file: dst is replaced if it exists
MoveFile(files, src, dst) ==
    [q \in (DOMAIN files \ {src}) \cup {dst} |-> IF q = dst THEN files[src] ELSE files[q]]

StepOrderRenameFirst == <<"makedirs", "rename", "write_temp", "save_merged", "remove_temp">>

\* lines 466-528: the filesystem operations of a merge, in program order
StepOrder == <<"makedirs", "write_temp", "save_merged", "remove_temp", "rename">>

-----------------------------------------------------------------------------
(* Input pools *)

Sol == <<"S","o","l">>
SolPadded == <<"s","o","l"," ">>
Kio == <<"K","i","o">>
Bar == <<"B","a","r">>
Dashes == <<"-","-">>
SolUrl == <<"s","o","l",".","c","o">>
SolUrlFull == <<"h","t","t","p","s",":","/","/","w","w","w",".","s","o","l",".","c","o","/">>
Mobile == <<"3","0","0">>
MobileIntl == <<"+","5","7"," ","3","1","1">>
Landline == <<"6","0","1">>
Note == <<"x">>

\* the rows a master may hold, by column name
RowPool ==
    << [Nombre |-> Sol, WhatsApp |-> EmptyStr, Telefono |-> Landline, web |-> SolUrl],
       [Nombre |-> Bar, WhatsApp |-> Mobile, Telefono |-> EmptyStr, web |-> EmptyStr],
       [Nombre |-> Dashes, WhatsApp |-> EmptyStr, Telefono |-> Landline, web |-> NA] >>

RowCell(r, col, i) ==
    IF col = "Nombre" THEN r.Nombre
    ELSE IF col = "WhatsApp" THEN r.WhatsApp
    ELSE IF col = "Telefono" THEN r.Telefono
    ELSE IF col = "Pagina Web" THEN r.web
    ELSE IF col = "Unnamed: 0" THEN IntStr(i - 1)
    ELSE EmptyStr

\* the header rows a master may have
Schemas ==
    { <<HeaderCell("Nombre", 1, 0), HeaderCell("WhatsApp", 0, 0),
        HeaderCell("Telefono", 0, 1), HeaderCell("Pagina Web", 0, 0)>>,
      <<HeaderCell("Unnamed: 0", 0, 0), HeaderCell("Nombre", 0, 0),
        HeaderCell("Telefono", 0, 0)>>,
      <<HeaderCell("Ciudad", 0, 0), HeaderCell("Nombre", 0, 0),
        HeaderCell("WhatsApp", 0, 0), HeaderCell("Telefono", 0, 0)>> }

\* the subsequence of RowPool picked by the index set sel
RECURSIVE PickRows(_, _)
PickRows(sel, from) ==
    IF from > Len(RowPool) THEN <<>>
    ELSE (IF from \in sel THEN <<RowPool[from]>> ELSE <<>>) \o PickRows(sel, from + 1)

Master(header, sel) ==
    LET picked == PickRows(sel, 1)
    IN  [header |-> header,
         rows |-> [i \in DOMAIN picked |->
                     [j \in DOMAIN header |-> RowCell(picked[i], header[j].name, i)]],
         style |-> "original"]

Masters == {Master(h, sel) : h \in Schemas, sel \in SUBSET (DOMAIN RowPool)}

\* the new records a batch is made of
Items ==
    { ("Nombre" :> Sol) @@ ("Pagina Web" :> SolUrlFull) @@ ("WhatsApp" :> Mobile)
          @@ ("Telefono" :> NaN),
      ("Nombre" :> Kio) @@ ("Telefono" :> Landline) @@ ("Extra" :> Note),
      ("Nombre" :> Kio) @@ ("Pagina Web" :> NaN) @@ ("WhatsApp" :> NaN)
          @@ ("Telefono" :> MobileIntl),
      ("Nombre" :> EmptyStr) @@ ("WhatsApp" :> Mobile),
      ("Nombre" :> Bar) @@ ("Pagina Web" :> NA),
      ("Nombre" :> SolPadded) @@ ("WhatsApp" :> Landline) @@ ("Teléfono" :> Landline),
      ("Nombre" :> Bar) @@ ("Página Web" :> SolUrl) @@ ("phone" :> Landline)
          @@ ("Telefono" :> EmptyStr) @@ ("Ciudad" :> NaN),
      ("Nombre" :> Kio) @@ ("Pagina Web" :> SolUrl) }

SeqsUpTo(S, n) == UNION {[1..k -> S] : k \in 0..n}

Batches == SeqsUpTo(Items, MaxBatch)

KeyPriorities == {"None", "Nombre"}

\* lines 333-334, and the one-column priority list a caller may pass
ResolveKeyPriority(key_priority) ==
    IF key_priority = "None" THEN DefaultKeyPriority ELSE <<key_priority>>

OutputDirs == {"None", "input", "merged"}

MasterPath == Path("input", <<"base">>)
MissingPath == Path("input", <<"absent">>)

NoCall == [existing_filepath |-> MasterPath, output_dir |-> "merged",
           key_priority |-> DefaultKeyPriority, key_priority_arg |-> "None",
           merged |-> MasterPath,
           temp |-> MasterPath, renamed |-> MasterPath, step |-> 0]
NoFrame == [columns |-> <<>>, rows |-> <<>>]
NoRet == [kind |-> "none", at |-> "", merged |-> MasterPath, renamed |-> MasterPath]
NoCmp == [kind |-> "none"]
NoPath == Path("", <<>>)
NoBk == [kind |-> "none", count |-> 0, filepath |-> MasterPath, ret |-> NoPath,
         taken |-> <<>>]
NoCollect == [kind |-> "none"]
NoPb == [kind |-> "none"]
NoNorm == [kind |-> "none"]

-----------------------------------------------------------------------------
(* merge_into_existing_excel as a process *)

NoContent == [header |-> <<>>, rows |-> <<>>, style |-> "none"]

Raised(error, at) == [kind |-> "raised", at |-> at, error |-> error,
                      merged |-> MasterPath, renamed |-> MasterPath]
Returned(kind, merged, renamed) ==
    [kind |-> kind, at |-> "", error |-> "", merged |-> merged, renamed |-> renamed]

CurrentOp == IF pc = "running" /\ call.step \in DOMAIN StepOrder
             THEN StepOrder[call.step] ELSE "none"

StartOutcomeEmptyLoads(batch, exists) ==
    IF ~exists THEN "not_found" ELSE "load"

StartOutcomeMissingIsEmpty(batch, exists) ==
    IF batch = <<>> \/ ~exists THEN "empty" ELSE "load"

\* lines 306-308 and 337-338: the two early exits, in program order
StartOutcome(batch, exists) ==
    IF batch = <<>> THEN "empty"
    ELSE IF ~exists THEN "not_found"
    ELSE "load"

\* lines 306-338: the call, up to the check that the master exists
MergeStart(existing_filepath, output_dir, key_priority) ==
    /\ pc = "idle"
    /\ merges < MaxMerges
    /\ merges' = merges + 1
    /\ oplog' = <<>>
    /\ before' = [fs |-> fs, dirs |-> dirs,
                  exists |-> existing_filepath \in DOMAIN fs,
                  master |-> IF existing_filepath \in DOMAIN fs
                             THEN fs[existing_filepath] ELSE NoContent,
                  artifacts |-> artifacts,
                  preserved |-> preserved]
    /\ call' = [existing_filepath |-> existing_filepath,
                output_dir |-> ResolveOutputDir(existing_filepath, output_dir),
                key_priority |-> ResolveKeyPriority(key_priority),
                key_priority_arg |-> key_priority,
                merged |-> merged_filepath(existing_filepath,
                               ResolveOutputDir(existing_filepath, output_dir)),
                temp |-> temp_file(merged_filepath(existing_filepath,
                               ResolveOutputDir(existing_filepath, output_dir))),
                renamed |-> renamed_original(existing_filepath),
                step |-> 0]
    /\ LET outcome == StartOutcome(data, existing_filepath \in DOMAIN fs)
       IN  IF outcome = "empty"
           THEN pc' = "idle" /\ ret' = Returned("empty", MasterPath, MasterPath)
           ELSE IF outcome = "not_found"
           THEN pc' = "idle" /\ ret' = Raised("FileNotFoundError", "exists")
           ELSE pc' = "loading" /\ ret' = Returned("pending", MasterPath, MasterPath)
    /\ UNCHANGED <<fs, dirs, now, data, df_exist, artifacts, faults, cmp,
                   preserved, bk, collect, norm, pb>>

\* lines 340-461: load the master and run the merge loop in memory
LoadAndMerge ==
    /\ pc = "loading"
    /\ IF fs[call.existing_filepath].style = "partial"
       THEN /\ pc' = "idle"
            /\ ret' = Raised("InvalidFileException", "load")
            /\ UNCHANGED <<df_exist, call>>
       ELSE /\ pc' = "running"
            /\ df_exist' = MergedFrame(fs[call.existing_filepath], data, call.key_priority)
            /\ call' = [call EXCEPT !.step = 1]
            /\ UNCHANGED ret
    /\ UNCHANGED <<fs, dirs, now, data, oplog, before, artifacts, merges, faults, cmp,
                   preserved, bk, collect, norm, pb>>

Advance(op) == /\ oplog' = Append(oplog, op)
               /\ UNCHANGED <<now, data, df_exist, ret, before, artifacts, merges, faults, cmp,
                   preserved, bk, collect, norm, pb>>

\* line 466
MakeDirs ==
    /\ CurrentOp = "makedirs"
    /\ dirs' = dirs \cup {call.output_dir}
    /\ call' = [call EXCEPT !.step = @ + 1]
    /\ pc' = pc
    /\ fs' = fs
    /\ Advance("makedirs")

\* line 484
WriteTemp ==
    /\ CurrentOp = "write_temp"
    /\ fs' = WriteFile(fs, call.temp, ToExcel(df_exist))
    /\ call' = [call EXCEPT !.step = @ + 1]
    /\ pc' = pc
    /\ dirs' = dirs
    /\ Advance("write_temp")

\* lines 487-515
SaveMerged ==
    /\ CurrentOp = "save_merged"
    /\ call.temp \in DOMAIN fs
    /\ fs' = WriteFile(fs, call.merged, Styled(fs[call.temp]))
    /\ call' = [call EXCEPT !.step = @ + 1]
    /\ pc' = pc
    /\ dirs' = dirs
    /\ Advance("save_merged")

\* line 516
RemoveTemp ==
    /\ CurrentOp = "remove_temp"
    /\ call.temp \in DOMAIN fs
    /\ fs' = RemoveFile(fs, call.temp)
    /\ call' = [call EXCEPT !.step = @ + 1]
    /\ pc' = pc
    /\ dirs' = dirs
    /\ Advance("remove_temp")

\* lines 519-528
RenameOriginal ==
    /\ CurrentOp = "rename"
    /\ call.existing_filepath \in DOMAIN fs
    /\ LET target == IF call.renamed \in DOMAIN fs
                     THEN renamed_original_ts(call.existing_filepath, now)
                     ELSE call.renamed
       IN  /\ fs' = MoveFile(fs, call.existing_filepath, target)
           /\ call' = [call EXCEPT !.step = @ + 1, !.renamed = target]
    /\ pc' = pc
    /\ dirs' = dirs
    /\ Advance("rename")

\* line 533
MergeReturn ==
    /\ pc = "running"
    /\ call.step > Len(StepOrder)
    /\ pc' = "idle"
    /\ ret' = Returned("ok", call.merged, call.renamed)
    /\ artifacts' = IF call.merged \in DOMAIN fs
                    THEN artifacts \cup {[content |-> fs[call.merged],
                                          key_priority |-> call.key_priority]}
                    ELSE artifacts
    /\ preserved' = preserved \cup {call.renamed}
    /\ UNCHANGED <<fs, dirs, now, data, call, df_exist, oplog, before, merges, faults, cmp,
                   bk, collect, norm, pb>>

\* what a failed operation may leave on disk
Residue(op) ==
    IF op = "write_temp" THEN {fs, WriteFile(fs, call.temp, PartialFile)}
    ELSE IF op = "save_merged" THEN {fs, WriteFile(fs, call.merged, PartialFile)}
    ELSE {fs}

\* an I/O failure of the operation the call is about to perform; the exception
\* leaves merge_into_existing_excel, which has no handler
Fault ==
    /\ faults > 0
    /\ \/ pc = "loading"
       \/ CurrentOp # "none"
    /\ LET op == IF pc = "loading" THEN "load" ELSE CurrentOp
       IN  /\ fs' \in Residue(op)
           /\ ret' = Raised("OSError", op)
    /\ faults' = faults - 1
    /\ pc' = "idle"
    /\ UNCHANGED <<dirs, now, data, call, df_exist, oplog, before, artifacts, merges, cmp,
                   preserved, bk, collect, norm, pb>>

\* a second passes; the clock is read only by RenameOriginal, so time passing
\* during a call is time passing before it
Tick ==
    /\ pc = "idle"
    /\ now < MaxClock
    /\ now' = now + 1
    /\ UNCHANGED <<fs, dirs, data, pc, call, df_exist, ret, oplog, before, artifacts,
                   merges, faults, cmp,
                   preserved, bk, collect, norm, pb>>

\* the step merge_final.py tells the user to take after a merge: the merged
\* artifact becomes the new base, under the master's name in data/input; the
\* result of the last call is no longer what the disk shows
UseMergedAsBase ==
    /\ pc = "idle"
    /\ MasterPath \notin DOMAIN fs
    /\ \E p \in DOMAIN fs :
          /\ p.stem = MasterPath.stem
          /\ fs[p].style = "styled"
          /\ fs' = WriteFile(fs, MasterPath, fs[p])
    /\ ret' = NoRet
    /\ UNCHANGED <<dirs, now, data, pc, call, df_exist, oplog, before, artifacts,
                   merges, faults, cmp,
                   preserved, bk, collect, norm, pb>>

CallableFiles == DOMAIN fs \cup {MissingPath}

\* a caller's merge: the key priority of merge_final.py and app.py, which is
\* the default one, on any file and with any output directory
Merge ==
    \E existing_filepath \in CallableFiles, output_dir \in OutputDirs :
        MergeStart(existing_filepath, output_dir, "None")

InitCommon ==
    /\ dirs = {"input"}
    /\ now = 0
    /\ pc = "idle"
    /\ call = NoCall
    /\ df_exist = NoFrame
    /\ ret = NoRet
    /\ oplog = <<>>
    /\ before = [fs |-> fs, dirs |-> dirs, exists |-> FALSE, master |-> NoContent,
                 artifacts |-> {}, preserved |-> {}]
    /\ artifacts = {}
    /\ merges = 0
    /\ cmp = NoCmp
    /\ preserved = {p \in DOMAIN fs : p = renamed_original(MasterPath)}
    /\ bk = NoBk
    /\ collect = NoCollect
    /\ norm = NoNorm
    /\ pb = NoPb

\* two masters and three batches (none, a record that matches, a record that
\* does not), with I/O failures and any sequence of calls
ProcMasters == {Master(h, {1, 2}) : h \in {s \in Schemas : Len(s) = 4}}
ProcBatches ==
    { <<>>,
      << ("Nombre" :> Sol) @@ ("Pagina Web" :> SolUrlFull) @@ ("WhatsApp" :> Mobile) >>,
      << ("Nombre" :> Kio) @@ ("Telefono" :> Landline) @@ ("Extra" :> Note) >> }

\* the original an earlier merge may have preserved next to the master
EarlierOriginal == Master(CHOOSE h \in Schemas : Len(h) = 3, {3})

\* data/input at the start: a master, possibly next to the original an earlier
\* merge preserved
ProcInputs ==
    {(MasterPath :> m) : m \in ProcMasters}
        \cup {(MasterPath :> CHOOSE m \in ProcMasters : "Pagina Web" \in Range(ReadExcel(m).columns))
                 @@ (renamed_original(MasterPath) :> EarlierOriginal)}

Init ==
    /\ fs \in ProcInputs
    /\ data \in ProcBatches
    /\ faults = MaxFaults
    /\ InitCommon

Next ==
    \/ Merge
    \/ LoadAndMerge
    \/ MakeDirs
    \/ WriteTemp
    \/ SaveMerged
    \/ RemoveTemp
    \/ RenameOriginal
    \/ MergeReturn
    \/ Fault
    \/ Tick
    \/ UseMergedAsBase

Spec == Init /\ [][Next]_vars

-----------------------------------------------------------------------------
(* compare_with_existing of pre_merge.py *)

pm_normalize_key(val) ==
    IF val = NoneV THEN EmptyStr
    ELSE KeepChars(StripWww(StripScheme(Strip(Lower(Str(val))))), AlnumLower)

\* str(row.get(col, '')).strip() of a master row (lines 76-77)
RowText(row, col) == Strip(Str(Get(row, col, EmptyStr)))

\* lines 75-80: the normalized names of the master rows that have a name
existing_by_name(df) ==
    {pm_normalize_key(RowText(df.rows[i], "Nombre")) :
        i \in {k \in DOMAIN df.rows : Truthy(RowText(df.rows[k], "Nombre"))}}

\* lines 81-82: the normalized websites of the master rows that have one
existing_by_website(df) ==
    {pm_normalize_key(RowText(df.rows[i], "Pagina Web")) :
        i \in {k \in DOMAIN df.rows :
                  /\ Truthy(RowText(df.rows[k], "Pagina Web"))
                  /\ RowText(df.rows[k], "Pagina Web") # NA}}

\* lines 90-91: .strip() is called on the values as the record holds them; a
\* value that is no string (the NaN of an empty cell) has no such method
HasStrip(item) ==
    /\ Get(item, "Nombre", EmptyStr) # NaN
    /\ Get(item, "Página Web", EmptyStr) # NaN

\* lines 90-95
name_key(item) == pm_normalize_key(Strip(Get(item, "Nombre", EmptyStr)))
website_key(item) ==
    LET website == Strip(Get(item, "Página Web", EmptyStr))
    IN  IF Truthy(website) /\ website # NA THEN pm_normalize_key(website) ELSE EmptyStr

\* lines 97-98
duplicated_by_name(item, by_name) == name_key(item) \in by_name
duplicated_by_website(item, by_website) ==
    Truthy(website_key(item)) /\ website_key(item) \in by_website

IsDuplicateBoth(item, by_name, by_website) ==
    duplicated_by_name(item, by_name) /\ duplicated_by_website(item, by_website)

\* line 100
IsDuplicate(item, by_name, by_website) ==
    duplicated_by_name(item, by_name) \/ duplicated_by_website(item, by_website)

\* lines 114-115
NuevosAfter(nuevos, item, dup) == IF dup THEN nuevos ELSE Append(nuevos, item)

\* line 101
DuplicadosAfter(duplicados, item, dup) ==
    IF dup THEN Append(duplicados, item) ELSE duplicados

\* lines 102-113: the report entry of a duplicate, under its name
InfoAfter(info, item, dup, by_name, by_website) ==
    IF ~dup THEN info
    ELSE LET nombre == Strip(Get(item, "Nombre", EmptyStr))
             entry == [by_name |-> duplicated_by_name(item, by_name),
                       by_website |-> duplicated_by_website(item, by_website),
                       website |-> Strip(Get(item, "Página Web", EmptyStr)),
                       telefono |-> Get(item, "Teléfono", EmptyStr),
                       whatsapp |-> Get(item, "WhatsApp", EmptyStr)]
         IN  [n \in DOMAIN info \cup {nombre} |-> IF n = nombre THEN entry ELSE info[n]]

\* lines 85-117: the classification loop; it ends at the first record whose
\* name or website cannot be stripped, and the call raises
RECURSIVE Classify(_, _, _, _)
Classify(items, by_name, by_website, acc) ==
    IF items = <<>> THEN acc
    ELSE IF ~HasStrip(Head(items)) THEN [acc EXCEPT !.kind = "raised"]
    ELSE LET item == Head(items)
             dup == IsDuplicate(item, by_name, by_website)
         IN  Classify(Tail(items), by_name, by_website,
                      [kind |-> "done",
                       nuevos |-> NuevosAfter(acc.nuevos, item, dup),
                       duplicados |-> DuplicadosAfter(acc.duplicados, item, dup),
                       info |-> InfoAfter(acc.info, item, dup, by_name, by_website)])

NoInfo == [n \in {} |-> 0]

\* lines 59-117
compare_with_existing(new_data, existing_filepath) ==
    IF existing_filepath \notin DOMAIN fs
    THEN [kind |-> "done", nuevos |-> new_data, duplicados |-> <<>>, info |-> NoInfo]
    ELSE LET df == ReadExcel(fs[existing_filepath])
         IN  Classify(new_data, existing_by_name(df), existing_by_website(df),
                      [kind |-> "done", nuevos |-> <<>>, duplicados |-> <<>>,
                       info |-> NoInfo])

\* the candidate records of a classification
Candidates ==
    { ("Nombre" :> Sol) @@ ("Página Web" :> SolUrlFull) @@ ("WhatsApp" :> Mobile),
      ("Nombre" :> Kio) @@ ("Página Web" :> SolUrl),
      ("Nombre" :> SolPadded) @@ ("Teléfono" :> Landline),
      ("Nombre" :> Kio) @@ ("Página Web" :> NA),
      ("Nombre" :> EmptyStr) @@ ("Página Web" :> EmptyStr) @@ ("WhatsApp" :> Mobile),
      ("Nombre" :> Bar) @@ ("Página Web" :> Dashes),
      ("Nombre" :> NaN) @@ ("Pagina Web" :> SolUrl) @@ ("WhatsApp" :> Mobile) }

CandidateBatches == SeqsUpTo(Candidates, MaxBatch)

\* a call of compare_with_existing on the batch
CompareWith(existing_filepath) ==
    /\ pc = "idle"
    /\ LET r == compare_with_existing(data, existing_filepath)
       IN  cmp' = [kind |-> r.kind, new_data |-> data,
                   existing_filepath |-> existing_filepath,
                   nuevos |-> r.nuevos, duplicados |-> r.duplicados, info |-> r.info]
    /\ UNCHANGED <<fs, dirs, now, data, pc, call, df_exist, ret, oplog, before,
                   artifacts, merges, faults, preserved, bk, collect, norm, pb>>

Compare == \E existing_filepath \in CallableFiles : CompareWith(existing_filepath)

InitClassify ==
    /\ \E m \in Masters : fs = (MasterPath :> m)
    /\ data \in CandidateBatches
    /\ faults = 0
    /\ InitCommon

NextClassify == Compare

SpecClassify == InitClassify /\ [][NextClassify]_vars

-----------------------------------------------------------------------------
(* pre_merge.py and merge_final.py on the same master and batch *)

\* every master and every batch; the batch is classified against the master
\* (pre_merge.py), merged into it (merge_final.py) and then merged into the
\* result of that merge, with no I/O failure
InitData ==
    /\ \E m \in Masters : fs = (MasterPath :> m)
    /\ data \in Batches
    /\ faults = 0
    /\ InitCommon

\* pre_merge.py: the batch is compared with the master before the merge
PreMerge ==
    /\ merges = 0
    /\ cmp = NoCmp
    /\ CompareWith(MasterPath)

\* the first application: the batch is merged into the master
MergeMaster ==
    /\ merges = 0
    /\ cmp # NoCmp
    /\ \E key_priority \in KeyPriorities : MergeStart(MasterPath, "None", key_priority)

\* the second application: the same batch, with the same key priority, is
\* merged into the artifact the first application wrote, with the default
\* output directory (merge_final.py passes output_dir=None)
Remerge ==
    /\ merges = 1
    /\ ret.kind = "ok"
    /\ ret.merged \in DOMAIN fs
    /\ MergeStart(ret.merged, "None", call.key_priority_arg)

NextData ==
    \/ PreMerge
    \/ MergeMaster
    \/ Remerge
    \/ LoadAndMerge
    \/ MakeDirs
    \/ WriteTemp
    \/ SaveMerged
    \/ RemoveTemp
    \/ RenameOriginal
    \/ MergeReturn

SpecData == InitData /\ [][NextData]_vars

\* the same masters and batches, up to the merged frame: the batch is
\* classified, then loaded and merged in memory; nothing is written
NextFrame == PreMerge \/ MergeMaster \/ LoadAndMerge

SpecFrame == InitData /\ [][NextFrame]_vars

-----------------------------------------------------------------------------
(* create_backup, between the merges of merge_final.py *)

BackupTag == "_backup_"
StrftimeTokens == <<"20260101_000000", "20260101_000001", "20260101_000002",
                    "20260101_000003", "20260101_000004", "20260101_000005">>

\* line 261: datetime.now().strftime("%Y%m%d_%H%M%S")
Strftime(t) == StrftimeTokens[t + 1]

\* line 257: os.path.join(os.path.dirname(filepath), '..', 'backups')
backup_dir(filepath) == "backups"

\* lines 261-265
backup_path(filepath, t) ==
    Path(backup_dir(filepath), filepath.stem \o <<BackupTag, Strftime(t)>>)

CopyFileMoved(files, src, dst) == MoveFile(files, src, dst)

\* shutil.copy2(src, dst): dst is replaced if it exists
CopyFile(files, src, dst) == WriteFile(files, dst, files[src])

\* lines 245-269
create_backup(filepath) ==
    /\ pc = "idle"
    /\ bk.count < MaxBackups
    /\ IF filepath \notin DOMAIN fs
       THEN /\ bk' = [bk EXCEPT !.kind = "done", !.count = @ + 1,
                                !.filepath = filepath, !.ret = NoPath]
            /\ UNCHANGED <<fs, dirs>>
       ELSE LET dst == backup_path(filepath, now)
            IN  /\ dirs' = dirs \cup {backup_dir(filepath)}
                /\ fs' = CopyFile(fs, filepath, dst)
                /\ bk' = [kind |-> "done", count |-> bk.count + 1, filepath |-> filepath,
                          ret |-> dst,
                          taken |-> Append(bk.taken, [path |-> dst,
                                                      content |-> fs[filepath]])]
    /\ UNCHANGED <<now, data, pc, call, df_exist, ret, oplog, before, artifacts,
                   merges, faults, cmp, preserved, collect, norm, pb>>

\* run_interactive.py lines 108-117, and a call on a path that names no file
Backup == \E filepath \in {MasterPath, MissingPath} : create_backup(filepath)

\* merge_final.py lines 95-100: the master of data/input, the key priority
\* ['Pagina Web', 'Nombre'] and the default output directory
MergeFinal ==
    /\ MasterPath \in DOMAIN fs
    /\ MergeStart(MasterPath, "None", "None")

InitBackup ==
    /\ \E m \in ProcMasters : fs = (MasterPath :> m)
    /\ data \in ProcBatches \ {<<>>}
    /\ faults = 0
    /\ InitCommon

NextBackup ==
    \/ Backup
    \/ Tick
    \/ MergeFinal
    \/ LoadAndMerge
    \/ MakeDirs
    \/ WriteTemp
    \/ SaveMerged
    \/ RemoveTemp
    \/ RenameOriginal
    \/ MergeReturn
    \/ UseMergedAsBase

SpecBackup == InitBackup /\ [][NextBackup]_vars

-----------------------------------------------------------------------------
(* runs of merge_final.py, with post_merge_manager.move_merged_to_input *)

\* merge_final.find_input_excel (lines 32-41): the first file of the listing
\* of data/input, which is in no particular order, so any file of it; the
\* listing does not descend into data/input/backup
find_input_excel == {p \in DOMAIN fs : p.dir = "input"}

\* merge_final.main (lines 58-100): the records of the latest output file are
\* merged into the file find_input_excel selects
MergeFinalRun ==
    \E input_file \in find_input_excel : MergeStart(input_file, "None", "None")

\* post_merge_manager.py lines 44-45: data/input/backup/backup_<timestamp>
BackupSubdirs == <<"input/backup/backup_20260101_000000",
                   "input/backup/backup_20260101_000001",
                   "input/backup/backup_20260101_000002",
                   "input/backup/backup_20260101_000003",
                   "input/backup/backup_20260101_000004",
                   "input/backup/backup_20260101_000005">>

\* post_merge_manager.py lines 63-64
new_input_path == Path("input", <<"base_datos_master">>)

\* post_merge_manager.move_merged_to_input(merged_file_path) with
\* backup_old_input=True, as app.py line 750 calls it after a merge: every
\* file of data/input is moved to a new backup directory and the merged
\* artifact is copied to data/input/base_datos_master.xlsx
MoveMergedToInput ==
    /\ pc = "idle"
    /\ ret.kind = "ok"
    /\ ret.merged \in DOMAIN fs
    /\ LET existing_files == {p \in DOMAIN fs : p.dir = "input"}
           backup_subdir == BackupSubdirs[now + 1]
           kept == DOMAIN fs \ existing_files
           moved == [q \in kept \cup {Path(backup_subdir, p.stem) : p \in existing_files} |->
                       IF Path("input", q.stem) \in existing_files /\ q.dir = backup_subdir
                       THEN fs[Path("input", q.stem)] ELSE fs[q]]
       IN  /\ fs' = WriteFile(moved, new_input_path, fs[ret.merged])
           /\ dirs' = IF existing_files = {} THEN dirs
                      ELSE dirs \cup {"input/backup", backup_subdir}
    /\ UNCHANGED <<now, data, pc, call, df_exist, ret, oplog, before, artifacts,
                   merges, faults, cmp, preserved, bk, collect, norm, pb>>

NextRuns ==
    \/ MergeFinalRun
    \/ LoadAndMerge
    \/ MakeDirs
    \/ WriteTemp
    \/ SaveMerged
    \/ RemoveTemp
    \/ RenameOriginal
    \/ MergeReturn
    \/ MoveMergedToInput
    \/ Tick

SpecRuns == InitBackup /\ [][NextRuns]_vars

-----------------------------------------------------------------------------
(* load_businesses_with_contact_info of business_processor.py *)

max_attempts == 5

\* a ten-digit mobile number and a seven-digit local number that begins with 3
MobileFull == <<"3","0","0"," ","1","2","3","4","5","6","7">>
LocalNumber == <<"3","4","5"," ","6","7","8","9">>

\* the places the lookup source may return: id, displayName (its text, or
\* None when the place has none), nationalPhoneNumber and
\* internationalPhoneNumber
Places ==
    { [id |-> <<"A">>, displayName |-> Sol,
       nationalPhoneNumber |-> MobileFull, internationalPhoneNumber |-> NoneV],
      [id |-> <<"A">>, displayName |-> Sol,
       nationalPhoneNumber |-> NoneV, internationalPhoneNumber |-> NoneV],
      [id |-> <<"B">>, displayName |-> NoneV,
       nationalPhoneNumber |-> <<" ">>, internationalPhoneNumber |-> Landline],
      [id |-> <<"B">>, displayName |-> Kio,
       nationalPhoneNumber |-> NoneV, internationalPhoneNumber |-> LocalNumber],
      [id |-> NoneV, displayName |-> Bar,
       nationalPhoneNumber |-> Mobile, internationalPhoneNumber |-> NoneV] }

\* the answers of one search
Responses == SeqsUpTo(Places, MaxResults)

SearchVariations == {EmptyStr, <<"c","e","n","t","r","o">>}

\* lines 246-254: the number of variations to try
variations_to_try(search_variation) == IF Truthy(search_variation) THEN 5 ELSE 1

\* lines 131-134 and 487-490: the rule that calls a number mobile when a
\* record is produced
CollectedAsMobile(phone) ==
    LET clean_number == KeepChars(phone, Digits)
    IN  \/ StartsWith(clean_number, CountryCode \o MobilePrefix)
        \/ Len(clean_number) = 10 /\ StartsWith(clean_number, MobilePrefix)

\* _process_text_search_result, lines 467-516: the fields the collector and
\* process_item read
process_text_search_result(business) ==
    LET phone == PyOr(business.nationalPhoneNumber, business.internationalPhoneNumber)
    IN  [id |-> business.id,
         place_id |-> business.id,
         name |-> business.displayName,
         formatted_phone_number |-> phone,
         whatsapp |-> IF Truthy(phone) /\ CollectedAsMobile(phone) THEN phone ELSE NoneV,
         telefono |-> IF Truthy(phone) /\ ~CollectedAsMobile(phone) THEN phone ELSE NoneV]

\* lines 289-290: phone and phone.strip()
HasPhone(processed) ==
    Truthy(processed.formatted_phone_number)
        /\ Truthy(Strip(processed.formatted_phone_number))

\* b.get('id') or b.get('place_id')
PlaceId(processed) == PyOr(processed.id, processed.place_id)

IsNewIdAlways(place_id, existing_place_ids) == Truthy(place_id)

\* lines 300 and 306: place_id and place_id not in existing_place_ids
IsNewId(place_id, existing_place_ids) ==
    Truthy(place_id) /\ place_id \notin existing_place_ids

\* lines 298-302 and 304-308: append the businesses whose id is new
RECURSIVE AddNew(_, _, _)
AddNew(acc, existing_place_ids, businesses) ==
    IF businesses = <<>> THEN [list |-> acc, ids |-> existing_place_ids]
    ELSE LET business == Head(businesses)
             place_id == PlaceId(business)
         IN  IF IsNewId(place_id, existing_place_ids)
             THEN AddNew(Append(acc, business), existing_place_ids \cup {place_id},
                         Tail(businesses))
             ELSE AddNew(acc, existing_place_ids, Tail(businesses))

\* line 273
search_limit(target_count, found) ==
    IF (target_count - found) * 3 > 60 THEN (target_count - found) * 3 ELSE 60

selected_resultsAll(final_results, target_count) == final_results

\* lines 315-316: final_results[:min(len(final_results), target_count)]
selected_results(final_results, target_count) ==
    SubSeq(final_results, 1,
           IF Len(final_results) < target_count THEN Len(final_results) ELSE target_count)

\* the ids of a list of processed businesses
IdsOf(list) == {PlaceId(list[i]) : i \in DOMAIN list}

\* lines 240-254: the call begins
CollectStart ==
    /\ collect.kind = "none"
    /\ \E target_count \in 0..MaxTarget, search_variation \in SearchVariations,
          places_client \in BOOLEAN :
          collect' = [kind |-> "running",
                      places_client |-> places_client,
                      target_count |-> target_count,
                      variations |-> variations_to_try(search_variation),
                      tried |-> 0,
                      attempts |-> 0,
                      searches |-> 0,
                      all_businesses_with_phone |-> <<>>,
                      all_businesses_without_phone |-> <<>>,
                      offered |-> {},
                      repeated |-> {},
                      result |-> <<>>]
    /\ UNCHANGED <<fs, dirs, now, data, pc, call, df_exist, ret, oplog, before,
                   artifacts, merges, faults, cmp, preserved, bk, norm, pb>>

\* lines 257-262: does the loop go into the search of the next variation?
LoopContinues ==
    /\ collect.tried < collect.variations
    /\ Len(collect.all_businesses_with_phone) < collect.target_count
    /\ collect.attempts + 1 <= max_attempts

\* lines 256-275 and load_from_places_api, lines 30-31: without a client the
\* search raises ValueError, which the collector does not catch
CollectRaise ==
    /\ collect.kind = "running"
    /\ LoopContinues
    /\ ~collect.places_client
    /\ collect' = [collect EXCEPT !.kind = "raised", !.tried = @ + 1,
                                  !.attempts = @ + 1]
    /\ UNCHANGED <<fs, dirs, now, data, pc, call, df_exist, ret, oplog, before,
                   artifacts, merges, faults, cmp, preserved, bk, norm, pb>>

\* lines 256-310: one pass of the loop, with the answer of the lookup source
\* (text_search returns the places it got before an error, possibly none)
CollectAttempt ==
    /\ collect.kind = "running"
    /\ LoopContinues
    /\ collect.places_client
    /\ \E businesses \in Responses :
          /\ Len(businesses) <= search_limit(collect.target_count,
                                             Len(collect.all_businesses_with_phone))
          /\ LET processed == [i \in DOMAIN businesses |->
                                  process_text_search_result(businesses[i])]
                 businesses_with_phone == SelectSeq(processed, HasPhone)
                 businesses_without_phone ==
                     SelectSeq(processed, LAMBDA b : ~HasPhone(b))
                 existing_place_ids == IdsOf(collect.all_businesses_with_phone)
                 with == AddNew(collect.all_businesses_with_phone, existing_place_ids,
                                businesses_with_phone)
                 without == AddNew(collect.all_businesses_without_phone, with.ids,
                                   businesses_without_phone)
                 offer == {id \in IdsOf(businesses_with_phone) : Truthy(id)}
             IN  collect' =
                   IF businesses = <<>>
                   THEN [collect EXCEPT !.tried = @ + 1, !.attempts = @ + 1,
                                        !.searches = @ + 1]
                   ELSE [collect EXCEPT
                           !.tried = @ + 1, !.attempts = @ + 1, !.searches = @ + 1,
                           !.all_businesses_with_phone = with.list,
                           !.all_businesses_without_phone = without.list,
                           !.offered = @ \cup offer,
                           !.repeated = @ \cup (offer \cap existing_place_ids)]
    /\ UNCHANGED <<fs, dirs, now, data, pc, call, df_exist, ret, oplog, before,
                   artifacts, merges, faults, cmp, preserved, bk, norm, pb>>

\* lines 312-319: the loop has ended; the first target_count businesses with
\* a phone are returned
CollectReturn ==
    /\ collect.kind = "running"
    /\ ~LoopContinues
    /\ collect' = [collect EXCEPT
                     !.kind = "returned",
                     !.result = selected_results(collect.all_businesses_with_phone,
                                                 collect.target_count)]
    /\ UNCHANGED <<fs, dirs, now, data, pc, call, df_exist, ret, oplog, before,
                   artifacts, merges, faults, cmp, preserved, bk, norm, pb>>

InitCollect ==
    /\ fs = (MasterPath :> EarlierOriginal)
    /\ data = <<>>
    /\ faults = 0
    /\ InitCommon

NextCollect == CollectStart \/ CollectRaise \/ CollectAttempt \/ CollectReturn

SpecCollect == InitCollect /\ [][NextCollect]_vars

-----------------------------------------------------------------------------
(* process_item and process_batch, business_processor.py lines 101-225 *)

\* utils.safe_get(record, key): the value, or '' when it is missing or falsy
safe_get(record, key) == PyOr(record[key], EmptyStr)

\* utils.clean_phone: re.sub(r'[^\d+]', '', phone)
clean_phone(phone) ==
    IF ~Truthy(phone) THEN EmptyStr ELSE KeepChars(phone, Digits \cup {"+"})

\* the items load_from_file gives (lines 53-62): no place_id, the name and
\* the phone of the CSV row
FileItems ==
    { [id |-> NoneV, place_id |-> NoneV, name |-> Sol,
       formatted_phone_number |-> LocalNumber, whatsapp |-> NoneV, telefono |-> NoneV],
      [id |-> NoneV, place_id |-> NoneV, name |-> EmptyStr,
       formatted_phone_number |-> MobileFull, whatsapp |-> NoneV, telefono |-> NoneV] }

\* what a place_details request gives for an item (places_api.py lines
\* 105-123): the normalized details with or without a name, {} after a
\* request error, or an exception of another kind
DetailsOutcomes == {"named", "unnamed", "empty", "error"}

\* lines 104-113: the record the fields are read from
DataOf(item, details) ==
    IF details \in {"named", "unnamed"}
    THEN [id |-> NoneV, place_id |-> item.place_id,
          name |-> IF details = "named" THEN Sol ELSE NoneV,
          formatted_phone_number |-> item.formatted_phone_number,
          whatsapp |-> NoneV, telefono |-> NoneV]
    ELSE item

\* line 116: with no name in data the next operand is
\* safe_get(details_data, "displayName", {}).get("text"), where {} is taken as a key:
\* safe_get returns '' (or fails on the unhashable key) and the call raises
NameRaises(details_data) == ~Truthy(safe_get(details_data, "name"))

\* lines 119-137: the channels of the record
ChannelsOf(item, details_data) ==
    LET whatsapp == PyOr(safe_get(details_data, "whatsapp"), safe_get(item, "whatsapp"))
        telefono == PyOr(safe_get(details_data, "telefono"), safe_get(item, "telefono"))
        phone == PyOr(safe_get(details_data, "formatted_phone_number"),
                      safe_get(item, "formatted_phone_number"))
    IN  IF Truthy(whatsapp) \/ Truthy(telefono) \/ ~Truthy(phone)
        THEN [whatsapp |-> whatsapp, telefono |-> telefono]
        ELSE IF CollectedAsMobile(phone)
        THEN [whatsapp |-> phone, telefono |-> telefono]
        ELSE [whatsapp |-> whatsapp, telefono |-> phone]

\* lines 170-180: the output record (the fields the merge reads)
process_item(item, details) ==
    LET details_data == DataOf(item, details)
        ch == ChannelsOf(item, details_data)
    IN  ("Nombre" :> Strip(safe_get(details_data, "name")))
        @@ ("WhatsApp" :> IF Truthy(ch.whatsapp)
                          THEN Strip(clean_phone(ch.whatsapp)) ELSE NA)
        @@ ("Telefono" :> IF Truthy(ch.telefono)
                          THEN Strip(clean_phone(ch.telefono)) ELSE NA)
        @@ ("Página Web" :> NA)

Workers == {1, 2}

\* app.run_search lines 299-317: the records the collector returned are
\* handed to process_batch of the same processor (the collector's locals are
\* gone once it has returned)
BatchFromCollector ==
    /\ pb.kind = "none"
    /\ collect.kind = "returned"
    /\ collect.result # <<>>
    /\ \E workers \in Workers :
          pb' = [kind |-> "running", source |-> "collector",
                 items |-> collect.result, workers |-> workers,
                 places_client |-> TRUE, done |-> {}, results |-> <<>>,
                 place_details |-> 0]
    /\ collect' = NoCollect
    /\ UNCHANGED <<fs, dirs, now, data, pc, call, df_exist, ret, oplog, before,
                   artifacts, merges, faults, cmp, preserved, bk, norm>>

\* main.py: the items of a file are handed to process_batch
BatchFromFile ==
    /\ pb.kind = "none"
    /\ collect.kind = "none"
    /\ \E items \in SeqsUpTo(FileItems, MaxResults) \ {<<>>}, workers \in Workers,
          places_client \in BOOLEAN :
          pb' = [kind |-> "running", source |-> "file",
                 items |-> items, workers |-> workers,
                 places_client |-> places_client, done |-> {}, results |-> <<>>,
                 place_details |-> 0]
    /\ UNCHANGED <<fs, dirs, now, data, pc, call, df_exist, ret, oplog, before,
                   artifacts, merges, faults, cmp, preserved, bk, collect, norm>>

\* line 187: is the batch processed by the worker pool?
Parallel == pb.workers > 1 /\ Len(pb.items) > 1

\* the items whose result process_batch may take next: the next one in order
\* (lines 209-215) or, with the pool, any that is not done (as_completed,
\* lines 197-203)
NextToComplete ==
    LET pending == DOMAIN pb.items \ pb.done
    IN  IF Parallel THEN pending
        ELSE {i \in pending : \A j \in pending : i <= j}

\* one process_item call and what process_batch does with its outcome: the
\* result is appended, or the exception is logged and the loop goes on
ProcessItem ==
    /\ pb.kind = "running"
    /\ \E i \in NextToComplete :
          LET item == pb.items[i]
              asks == Truthy(PyOr(item.place_id, item.id)) /\ pb.places_client
          IN  \E details \in IF asks THEN DetailsOutcomes ELSE {"none"} :
                 pb' = [pb EXCEPT
                          !.done = @ \cup {i},
                          !.place_details = IF asks THEN @ + 1 ELSE @,
                          !.results =
                              IF NameRaises(DataOf(item, details)) THEN @
                              ELSE Append(@, process_item(item, details))]
    /\ UNCHANGED <<fs, dirs, now, data, pc, call, df_exist, ret, oplog, before,
                   artifacts, merges, faults, cmp, preserved, bk, collect, norm>>

\* line 225
BatchReturn ==
    /\ pb.kind = "running"
    /\ pb.done = DOMAIN pb.items
    /\ pb' = [pb EXCEPT !.kind = "returned"]
    /\ UNCHANGED <<fs, dirs, now, data, pc, call, df_exist, ret, oplog, before,
                   artifacts, merges, faults, cmp, preserved, bk, collect, norm>>

\* the search of app.run_search, which precedes its process_batch call
Search ==
    /\ pb.kind = "none"
    /\ (CollectStart \/ CollectRaise \/ CollectAttempt \/ CollectReturn)

NextBatch ==
    \/ Search
    \/ BatchFromCollector
    \/ BatchFromFile
    \/ ProcessItem
    \/ BatchReturn

SpecBatch == InitCollect /\ [][NextBatch]_vars

-----------------------------------------------------------------------------
(* normalize_key, of pre_merge.py and of merge_into_existing_excel, applied *)
(* to a value and then to its own result                                     *)

\* the pieces the values to normalize are made of
Tokens ==
    { HttpPrefix, HttpsPrefix, WwwPrefix, <<"H","T","T","P",":","/","/">>,
      <<"W","w","W",".">>, <<"h","t","t","p">>, <<"w","w","w">>, <<":","/","/">>,
      <<" ">>, <<"a">>, <<"B">>, <<"1">>, <<"-">>, <<".">>, <<"é">>, <<"/">> }

RECURSIVE Flatten(_)
Flatten(ss) == IF ss = <<>> THEN <<>> ELSE Head(ss) \o Flatten(Tail(ss))

\* strings of up to MaxTokens pieces, None and NaN
NormInputs == {Flatten(ss) : ss \in SeqsUpTo(Tokens, MaxTokens)} \cup {NoneV, NaN}

NormFunctions == {"output_writer", "pre_merge"}

\* the normalize_key of one of the two modules
NormalizeWith(fn, val) ==
    IF fn = "pre_merge" THEN pm_normalize_key(val) ELSE normalize_key(val)

InitNormalize ==
    /\ fs = (MasterPath :> EarlierOriginal)
    /\ data = <<>>
    /\ faults = 0
    /\ InitCommon

\* normalize_key(x)
NormalizeOnce ==
    /\ norm.kind = "none"
    /\ \E fn \in NormFunctions, x \in NormInputs :
          norm' = [kind |-> "once", fn |-> fn, x |-> x, y |-> NormalizeWith(fn, x),
                   z |-> EmptyStr]
    /\ UNCHANGED <<fs, dirs, now, data, pc, call, df_exist, ret, oplog, before,
                   artifacts, merges, faults, cmp, preserved, bk, collect, pb>>

\* normalize_key(normalize_key(x))
NormalizeAgain ==
    /\ norm.kind = "once"
    /\ norm' = [norm EXCEPT !.kind = "twice", !.z = NormalizeWith(norm.fn, norm.y)]
    /\ UNCHANGED <<fs, dirs, now, data, pc, call, df_exist, ret, oplog, before,
                   artifacts, merges, faults, cmp, preserved, bk, collect, pb>>

NextNormalize == NormalizeOnce \/ NormalizeAgain

SpecNormalize == InitNormalize /\ [][NextNormalize]_vars

-----------------------------------------------------------------------------
(* Properties of the merged data *)

\* the master as the running (or last) call read it
MasterFrame == ReadExcel(before.master)
MasterColumns == [j \in DOMAIN before.master.header |-> StripHeader(before.master.header[j])]
MergeRan == "save_merged" \in Range(oplog) /\ call.merged \in DOMAIN fs
Filtered == filtered_data(data)
ItemKey(i) == normalize_key(item_key_val(Filtered[i], call.key_priority))
MasterKeyMap == existing_map(MasterFrame, key_col(MasterFrame, call.key_priority))

\* C1: the columns of the merged frame, and the header of the merged artifact
\* once it is written, are the trimmed columns of the master read at the start,
\* in the same order; every row of the artifact has one cell per column.
C1_SchemaImmutable ==
    /\ pc = "running" => df_exist.columns = MasterColumns
    /\ MergeRan =>
          /\ fs[call.merged].header =
                [j \in DOMAIN MasterColumns |-> HeaderCell(MasterColumns[j], 0, 0)]
          /\ \A i \in DOMAIN fs[call.merged].rows :
                Len(fs[call.merged].rows[i]) = Len(MasterColumns)

\* C1 witness: a merged artifact is on disk after a batch with a field that is
\* no master column updated a row in place and appended another.
C1_Witness ==
    /\ MergeRan
    /\ ret.kind = "ok"
    /\ Len(df_exist.rows) > Len(MasterFrame.rows)
    /\ \E i \in DOMAIN Filtered :
          /\ KeyMatches(MasterKeyMap, ItemKey(i))
          /\ ~(DOMAIN Filtered[i] \subseteq Range(MasterColumns))
    /\ \E j \in DOMAIN before.master.header : before.master.header[j].lpad > 0

\* C3 (as claimed): a merge whose master is the artifact an earlier merge of the
\* same batch (same key priority) wrote appends no row.
C3_RemergeAppendsNothing ==
    (/\ ret.kind = "ok"
     /\ [content |-> before.master, key_priority |-> call.key_priority]
            \in before.artifacts)
    => Len(df_exist.rows) = Len(before.master.rows)

\* C4 (as claimed, for the merge): a record whose normalized key is the empty
\* string matches no master row.
C4_EmptyKeyNeverMatches ==
    pc = "running" =>
        \A i \in DOMAIN Filtered :
            ItemKey(i) = EmptyStr => ~KeyMatches(MasterKeyMap, ItemKey(i))

HasBothChannels == {"WhatsApp", "Telefono"} \subseteq Range(MasterColumns)

\* the cell (i, col) of the merged frame was written by the merge
Written(i, col) ==
    \/ i > Len(MasterFrame.rows)
    \/ df_exist.rows[i][col] # MasterFrame.rows[i][col]

\* C6: with both channel columns in the master, a Telefono cell the merge wrote
\* holds no number the heuristic calls mobile, and a WhatsApp cell the merge
\* wrote holds nothing or a number the heuristic calls mobile.
C6_ChannelExclusive ==
    (pc = "running" /\ HasBothChannels) =>
        \A i \in DOMAIN df_exist.rows :
            /\ Written(i, "Telefono") =>
                  ~looks_like_mobile(df_exist.rows[i]["Telefono"])
            /\ Written(i, "WhatsApp") =>
                  \/ df_exist.rows[i]["WhatsApp"] = EmptyStr
                  \/ looks_like_mobile(df_exist.rows[i]["WhatsApp"])

\* C6 witness: the merge wrote a mobile number to WhatsApp and a landline to
\* Telefono, and a record offered a mobile number to Telefono.
C6_Witness ==
    /\ pc = "running"
    /\ HasBothChannels
    /\ \E i \in DOMAIN df_exist.rows :
          Written(i, "WhatsApp") /\ looks_like_mobile(df_exist.rows[i]["WhatsApp"])
    /\ \E i \in DOMAIN df_exist.rows :
          Written(i, "Telefono") /\ df_exist.rows[i]["Telefono"] = Landline
    /\ \E i \in DOMAIN Filtered :
          "Telefono" \in DOMAIN Filtered[i] /\ looks_like_mobile(telefono_val(Filtered[i]))

\* the numbers a record carries in its phone fields
PhoneValues(item) ==
    {clean_value(Get(item, k, NoneV)) : k \in {"WhatsApp", "Telefono", "Teléfono", "phone"}}
        \ {EmptyStr}

\* the record carries a mobile number and no landline number
MobileOnly(item) ==
    /\ PhoneValues(item) # {}
    /\ \A v \in PhoneValues(item) : looks_like_mobile(v)

\* C14 (as claimed): when the one record of a batch matches a master row and
\* carries a mobile number and no landline number, the merge sets the WhatsApp
\* cell of that row to the number and leaves its Telefono cell as it was.
C14_MatchedMobileOnly ==
    (/\ pc = "running"
     /\ HasBothChannels
     /\ Len(Filtered) = 1
     /\ KeyMatches(MasterKeyMap, ItemKey(1))
     /\ MobileOnly(Filtered[1])) =>
        LET idx == MasterKeyMap[ItemKey(1)]
        IN  /\ df_exist.rows[idx]["WhatsApp"] \in PhoneValues(Filtered[1])
            /\ df_exist.rows[idx]["Telefono"] = MasterFrame.rows[idx]["Telefono"]

\* C15 (as claimed): a record that compare_with_existing put in nuevos matches
\* no row when the batch is merged into the same master; when every record of
\* the batch is in nuevos, the merge appends one row per record, leaves every
\* master row as it was, and the rows have the master's columns and no other.
C15_NewIsAppended ==
    (pc = "running" /\ merges = 1 /\ cmp.kind = "done") =>
        /\ \A i \in DOMAIN data :
              data[i] \in Range(cmp.nuevos) => ~KeyMatches(MasterKeyMap, ItemKey(i))
        /\ cmp.nuevos = data =>
              /\ Len(df_exist.rows) = Len(MasterFrame.rows) + Len(data)
              /\ \A i \in DOMAIN MasterFrame.rows : df_exist.rows[i] = MasterFrame.rows[i]
              /\ \A i \in DOMAIN df_exist.rows :
                    DOMAIN df_exist.rows[i] = Range(MasterColumns)

-----------------------------------------------------------------------------
(* Properties of the filesystem protocol *)

\* a call has ended and the files are as it left them
CallEnded == pc = "idle" /\ merges > 0 /\ ret.kind # "none"

\* C2 (as claimed): after a successful merge the returned preserved-original
\* path holds a file whose content is the master's content at the start.
C2_OriginalPreserved ==
    (CallEnded /\ ret.kind = "ok") =>
        /\ ret.renamed \in DOMAIN fs
        /\ fs[ret.renamed] = before.master

\* the position of an operation in the log of the running call (0: not performed)
LogIndex(op) == IF op \in Range(oplog)
                THEN CHOOSE i \in DOMAIN oplog : oplog[i] = op ELSE 0

\* C8: the rename is performed at most once, after the merged artifact was
\* saved, and nothing follows it; when it is performed the complete merged
\* workbook is on disk; until it is performed the master is at its path and the
\* preserved-original slot is as it was; while the master is being loaded, and
\* when the load or the existence check fails, no file or directory has changed.
C8_RenameLast ==
    /\ \A i \in DOMAIN oplog :
          oplog[i] = "rename" =>
              /\ i = Len(oplog)
              /\ LogIndex("save_merged") \in 1..(i - 1)
              /\ \E p \in {call.merged, call.renamed} :
                    p \in DOMAIN fs /\ fs[p] = Styled(ToExcel(df_exist))
    /\ (pc = "running" /\ "rename" \notin Range(oplog)) =>
          /\ call.existing_filepath \in DOMAIN fs
          /\ call.renamed \in DOMAIN fs <=> call.renamed \in DOMAIN before.fs
    /\ (pc = "loading" \/ (ret.kind = "raised" /\ ret.at \in {"exists", "load"})) =>
          fs = before.fs /\ dirs = before.dirs

\* C8 witness: a merge ran to its end; its last operation was the rename.
C8_Witness ==
    /\ CallEnded
    /\ ret.kind = "ok"
    /\ oplog # <<>>
    /\ oplog[Len(oplog)] = "rename"
    /\ ret.renamed \in DOMAIN fs
    /\ call.existing_filepath \notin DOMAIN fs

\* C9 (as claimed): when a merge fails, the files are as they were before it.
C9_FailureLeavesNothing ==
    (CallEnded /\ ret.kind = "raised") => fs = before.fs

\* C10 (as claimed): a merge whose master path names no file fails with the
\* not-found error and changes no file, whatever the batch.
C10_MissingMasterRaises ==
    (CallEnded /\ ~before.exists) =>
        /\ ret.kind = "raised"
        /\ ret.error = "FileNotFoundError"
        /\ fs = before.fs

\* C10 (amended): a merge of a non-empty batch whose master path names no file
\* fails with the not-found error and changes no file or directory.
C10_MissingMasterRaisesNonEmpty ==
    (CallEnded /\ ~before.exists /\ data # <<>>) =>
        /\ ret.kind = "raised"
        /\ ret.error = "FileNotFoundError"
        /\ fs = before.fs
        /\ dirs = before.dirs

\* C10 witness: a non-empty batch was merged into a path that names no file.
C10_Witness ==
    /\ CallEnded
    /\ ~before.exists
    /\ data # <<>>
    /\ ret.kind = "raised"
    /\ call.existing_filepath = MissingPath

\* C11: a merge of an empty batch returns the empty result (None, None) without
\* raising, whether or not the master exists, and no file or directory is
\* created, changed, removed or renamed by it.
C11_EmptyBatchNoOp ==
    (CallEnded /\ data = <<>>) =>
        /\ ret.kind = "empty"
        /\ oplog = <<>>
        /\ fs = before.fs
        /\ dirs = before.dirs

\* C11 witness: an empty batch was merged into a master that exists.
C11_Witness ==
    /\ CallEnded
    /\ data = <<>>
    /\ before.exists
    /\ ret.kind = "empty"
    /\ call.existing_filepath \in DOMAIN fs

\* C12 (as claimed): after a successful merge the returned merged path and the
\* returned preserved-original path both differ from the master path and from
\* each other.
C12_DisjointPaths ==
    (CallEnded /\ ret.kind = "ok") =>
        /\ ret.merged # call.existing_filepath
        /\ ret.renamed # call.existing_filepath
        /\ ret.merged # ret.renamed

\* C13 (as claimed): when the '<name> - original' slot is occupied, a successful
\* merge stores the master under a timestamp-suffixed name, and every original
\* that earlier merges preserved (other than the file the merge was asked to
\* take as its master) is on disk after it with the content it had before.
C13_OriginalsKept ==
    (CallEnded /\ ret.kind = "ok") =>
        /\ renamed_original(call.existing_filepath) \in DOMAIN before.fs =>
              \E t \in 0..MaxClock :
                  ret.renamed = renamed_original_ts(call.existing_filepath, t)
        /\ \A p \in (before.preserved \cap DOMAIN before.fs) \ {call.existing_filepath} :
              p \in DOMAIN fs /\ fs[p] = before.fs[p]

-----------------------------------------------------------------------------
(* Properties of create_backup *)

\* C17: a call of create_backup on an existing file leaves every file that was
\* on disk (the source among them) at its path with its content, and adds one
\* file, '<name>_backup_<timestamp>' in the backup directory, with the content
\* of the source, whose path it returns; on a path that names no file it
\* returns the empty string and changes no file and no directory.
C17_BackupCopies ==
    [][bk'.count # bk.count =>
        IF bk'.filepath \in DOMAIN fs
        THEN /\ bk'.ret = backup_path(bk'.filepath, now)
             /\ DOMAIN fs' = DOMAIN fs \cup {bk'.ret}
             /\ fs'[bk'.ret] = fs[bk'.filepath]
             /\ \A q \in DOMAIN fs \ {bk'.ret} : fs'[q] = fs[q]
             /\ bk'.ret # bk'.filepath
        ELSE /\ bk'.ret = NoPath
             /\ fs' = fs
             /\ dirs' = dirs]_vars

\* C17 witness: a backup of the master was taken after a merge had replaced it;
\* the master and the backup hold the same workbook.
C17_Witness ==
    /\ bk.kind = "done"
    /\ merges > 0
    /\ bk.filepath = MasterPath
    /\ bk.ret \in DOMAIN fs
    /\ MasterPath \in DOMAIN fs
    /\ fs[bk.ret] = fs[MasterPath]
    /\ fs[MasterPath].style = "styled"

\* C18 (as claimed): every snapshot create_backup has taken is on disk, under
\* the path it was returned with and with the content it was taken with, and
\* no two snapshots have the same path.
C18_SnapshotsKept ==
    /\ \A i \in DOMAIN bk.taken :
          /\ bk.taken[i].path \in DOMAIN fs
          /\ fs[bk.taken[i].path] = bk.taken[i].content
    /\ \A i, j \in DOMAIN bk.taken :
          i # j => bk.taken[i].path # bk.taken[j].path

-----------------------------------------------------------------------------
(* Properties of load_businesses_with_contact_info *)

\* C19: a call performs at most max_attempts (5) searches, and the list it
\* returns has at most target_count records.
C19_CollectorBounds ==
    collect.kind # "none" =>
        /\ collect.searches <= max_attempts
        /\ collect.attempts <= max_attempts
        /\ collect.kind = "returned" => Len(collect.result) <= collect.target_count

\* C19 witness: a call returned after five searches, with target_count records
\* cut from a longer list.
C19_Witness ==
    /\ collect.kind = "returned"
    /\ collect.searches = max_attempts
    /\ collect.target_count > 0
    /\ Len(collect.result) = collect.target_count
    /\ Len(collect.all_businesses_with_phone) > collect.target_count

\* C20: no two records of the accumulated list (or of the returned list) have
\* the same id, and the ids accumulated are exactly the ids the searches so far
\* returned with a phone number, whatever the order within each answer.
C20_DedupById ==
    collect.kind # "none" =>
        /\ \A i, j \in DOMAIN collect.all_businesses_with_phone :
              i # j => PlaceId(collect.all_businesses_with_phone[i])
                          # PlaceId(collect.all_businesses_with_phone[j])
        /\ \A i, j \in DOMAIN collect.result :
              i # j => PlaceId(collect.result[i]) # PlaceId(collect.result[j])
        /\ IdsOf(collect.all_businesses_with_phone) = collect.offered

\* C20 witness: a search returned, with a phone, an id that an earlier
\* attempt had accumulated; the call returned two records.
C20_Witness ==
    /\ collect.kind = "returned"
    /\ collect.repeated # {}
    /\ Len(collect.result) = 2

\* C21 (as claimed): load_businesses_with_contact_info never raises an error
\* to its caller, whatever the lookup source does and with or without a client.
C21_NeverRaises == collect.kind # "raised"

\* C22 (as claimed): process_batch returns one output record for every input
\* record.
C22_OneRecordPerItem ==
    pb.kind = "returned" => Len(pb.results) = Len(pb.items)

\* C23 (as claimed): processing the records the collector returned issues no
\* place_details request.
C23_NoPlaceDetails ==
    (pb.kind # "none" /\ pb.source = "collector") => pb.place_details = 0

\* a master with both channel columns and no row
ChannelMaster == Master(CHOOSE h \in Schemas : HeaderCell("Pagina Web", 0, 0) \in Range(h), {})

\* the row the merge appends to ChannelMaster for a record
MergedRow(record) == MergedFrame(ChannelMaster, <<record>>, DefaultKeyPriority).rows[1]

\* C29 (as claimed): a number process_item put in WhatsApp or in Telefono is
\* written by the merge to that same column of a master with both columns.
C29_HeuristicsAgree ==
    pb.kind = "returned" =>
        \A k \in DOMAIN pb.results :
            LET record == pb.results[k]
            IN  /\ record["WhatsApp"] # NA =>
                      MergedRow(record)["WhatsApp"] = record["WhatsApp"]
                /\ record["Telefono"] # NA =>
                      MergedRow(record)["Telefono"] = record["Telefono"]

\* C27 (as claimed): a call returns only when the accumulator of records with
\* a phone has reached target_count or max_attempts (5) attempts were made.
C27_StopCondition ==
    collect.kind = "returned" =>
        \/ Len(collect.all_businesses_with_phone) >= collect.target_count
        \/ collect.attempts >= max_attempts

-----------------------------------------------------------------------------
(* Properties of normalize_key *)

\* C16: the result of normalize_key holds only lower-case ASCII letters and
\* digits, and normalize_key applied to that result returns it unchanged; an
\* absent value (None) gives the empty string, both times.
C16_NormalizeIdempotent ==
    /\ norm.kind \in {"once", "twice"} =>
          /\ Range(norm.y) \subseteq AlnumLower
          /\ norm.x = NoneV => norm.y = EmptyStr
    /\ norm.kind = "twice" => norm.z = norm.y

\* C16 witness: a value with a scheme, 'www.' and a character that is removed
\* was normalized twice, to a non-empty key.
C16_Witness ==
    /\ norm.kind = "twice"
    /\ norm.x # NoneV /\ norm.x # NaN
    /\ StartsWith(Lower(norm.x), HttpsPrefix \o WwwPrefix)
    /\ norm.z # EmptyStr
    /\ Len(norm.z) < Len(norm.x) - Len(HttpsPrefix \o WwwPrefix)

-----------------------------------------------------------------------------
(* Properties of the classification *)

Count(seq, x) == Cardinality({i \in DOMAIN seq : seq[i] = x})

\* C5 (as claimed): every classification of a batch returns, and puts every
\* candidate in exactly one of nuevos and duplicados: the two lists together
\* hold each record as often as the batch does, and their lengths add up to the
\* length of the batch; a missing master makes all new.
C5_Partition ==
    cmp.kind # "none" =>
        /\ cmp.kind = "done"
        /\ Len(cmp.nuevos) + Len(cmp.duplicados) = Len(cmp.new_data)
        /\ \A x \in Range(cmp.new_data) :
              Count(cmp.nuevos, x) + Count(cmp.duplicados, x) = Count(cmp.new_data, x)
        /\ \A x \in Range(cmp.new_data) :
              Count(cmp.nuevos, x) = 0 \/ Count(cmp.duplicados, x) = 0
        /\ cmp.existing_filepath \notin DOMAIN fs =>
              cmp.nuevos = cmp.new_data /\ cmp.duplicados = <<>>

\* the text of a master cell as the workbook holds it ("" when the column is absent)
MasterCells(col) ==
    LET m == fs[cmp.existing_filepath]
    IN  IF \E j \in DOMAIN m.header : m.header[j].name = col
        THEN {m.rows[i][CHOOSE j \in DOMAIN m.header : m.header[j].name = col] :
                 i \in DOMAIN m.rows}
        ELSE {}

InDuplicados(x) == x \in Range(cmp.duplicados)

MasterTexts(col) ==
    LET df == ReadExcel(fs[cmp.existing_filepath])
    IN  {RowText(df.rows[i], col) : i \in DOMAIN df.rows}

-----------------------------------------------------------------------------
(* Properties of the merge: contact filter, key column, order, updates *)

\* a record with a WhatsApp or a Telefono value (lines 315-320)
HasContact(item) ==
    \/ Truthy(clean_value(Get(item, "WhatsApp", EmptyStr)))
    \/ Truthy(clean_value(Get(item, "Telefono", EmptyStr)))
    \/ Truthy(clean_value(Get(item, "Teléfono", EmptyStr)))

Unmatched ==
    {i \in DOMAIN data :
        ~KeyMatches(MasterKeyMap,
                    normalize_key(item_key_val(data[i], call.key_priority)))}

MasterKeyCol == key_col(MasterFrame, call.key_priority)

\* C25 (as claimed): a record matches exactly when the normalized value of its
\* key-column field is the normalized key-column value of a master row.
C25_OneKeyColumn ==
    pc = "running" =>
        \A i \in DOMAIN Filtered :
            KeyMatches(MasterKeyMap, ItemKey(i))
                <=> normalize_key(Get(Filtered[i], MasterKeyCol, EmptyStr))
                        \in DOMAIN MasterKeyMap

\* the reorderings (permutations) of a sequence
Reorderings(seq) ==
    {[i \in DOMAIN seq |-> seq[f[i]]] :
        f \in {g \in [DOMAIN seq -> DOMAIN seq] : Range(g) = DOMAIN seq}}

\* the records of the batch have pairwise distinct normalized keys
DistinctKeys == \A i, j \in DOMAIN Filtered : i # j => ItemKey(i) # ItemKey(j)

\* C26 (as claimed): with pairwise distinct keys, every permutation of the
\* batch gives the same classification and the same set of merged rows.
C26_OrderIndependent ==
    (pc = "running" /\ merges = 1 /\ call.step = 1 /\ cmp # NoCmp /\ DistinctKeys) =>
        \A q \in Reorderings(data) :
            /\ Range(MergedFrame(before.master, q, call.key_priority).rows)
                  = Range(df_exist.rows)
            /\ LET r == compare_with_existing(q, cmp.existing_filepath)
               IN  /\ r.kind = cmp.kind
                   /\ r.kind = "done" =>
                         /\ Range(r.nuevos) = Range(cmp.nuevos)
                         /\ Range(r.duplicados) = Range(cmp.duplicados)

\* a row without its position index
Unindexed(row) == [c \in DOMAIN row \ {"Unnamed: 0"} |-> row[c]]

\* C26 (amended): with pairwise distinct keys, every permutation of the batch
\* gives the same classification and the same set of merged rows in every
\* column other than the position index 'Unnamed: 0'.
C26_OrderIndependentRows ==
    (pc = "running" /\ merges = 1 /\ call.step = 1 /\ cmp # NoCmp /\ DistinctKeys) =>
        \A q \in Reorderings(data) :
            /\ {Unindexed(row) :
                  row \in Range(MergedFrame(before.master, q, call.key_priority).rows)}
                  = {Unindexed(row) : row \in Range(df_exist.rows)}
            /\ LET r == compare_with_existing(q, cmp.existing_filepath)
               IN  /\ r.kind = cmp.kind
                   /\ r.kind = "done" =>
                         /\ Range(r.nuevos) = Range(cmp.nuevos)
                         /\ Range(r.duplicados) = Range(cmp.duplicados)

\* C26 witness: a batch of two different records with distinct keys was
\* classified and merged; one record matched a row and the other was appended.
C26_Witness ==
    /\ pc = "running" /\ merges = 1 /\ call.step = 1 /\ cmp.kind = "done"
    /\ DistinctKeys
    /\ Len(data) = 2 /\ data[1] # data[2]
    /\ Len(df_exist.rows) = Len(MasterFrame.rows) + 1
    /\ \E i \in DOMAIN Filtered : KeyMatches(MasterKeyMap, ItemKey(i))
    /\ cmp.nuevos # <<>> /\ cmp.duplicados # <<>>

\* a cell value that carries no data: empty, missing or 'N/A'
NoData(v) == v \in {NaN, NoneV, EmptyStr, NA} \/ Strip(Str(v)) = EmptyStr

\* C28 (as claimed): no cell of a master row that held data holds an empty,
\* missing or 'N/A' value after the merge loop.
C28_UpdateKeepsData ==
    pc = "running" =>
        \A i \in DOMAIN MasterFrame.rows :
            \A col \in Range(MasterColumns) :
                ~NoData(MasterFrame.rows[i][col]) => ~NoData(df_exist.rows[i][col])

\* the names of the rows of a file
RowNames(content) == {RowText(row, "Nombre") : row \in Range(ReadExcel(content).rows)}

\* C30 (as claimed): the file a merge_final run selects as master is not an
\* original an earlier merge preserved, and holds the rows of every artifact
\* the earlier merges wrote.
C30_MergesAccumulate ==
    merges > 0 =>
        /\ call.existing_filepath \notin before.preserved
        /\ \A a \in before.artifacts :
              RowNames(a.content) \subseteq RowNames(before.master)

====
